---- MODULE Spec2Model ----
(***************************************************************************)
(* BiFPN neck (src/bifpn.py): Resample, WeightedMerge, bifpn_layer, BiFPN. *)
(*                                                                         *)
(* A feature map is the record [c, h, w, src]: channel count, height,      *)
(* width and the module call that produced it.  Pixel values are not       *)
(* modelled; every shape, channel count, list length, index and assertion  *)
(* of the code is.  Python lists are sequences; At(s, i) is s[i] for a     *)
(* 0-based index and Last(s) is s[-1].                                     *)
(*                                                                         *)
(* Fusion weights are counted in units of 1e-4, so eps (0.0001) is 1 and   *)
(* the initial weight 1.0 is 10000; a normalised weight is the exact       *)
(* fraction num / den (floating-point rounding is not modelled).           *)
(***************************************************************************)
EXTENDS Integers, Sequences, FiniteSets, TLC

VARIABLES
    op,           \* the operation that produced the current state
    x_shape,      \* Resample._resize: x.shape[-2:] of its argument
    size,         \* Resample._resize: the target torch.Size
    resized,      \* Resample._resize: outcome of the last call
    merge,        \* a WeightedMerge instance (with its stored weight)
    merged,       \* outcome of the last WeightedMerge.forward
    backbone,     \* channel count of every backbone level (the real network)
    in_channels,  \* the caller's in_channels list object handed to BiFPN(...)
    cfg,          \* the other constructor arguments of BiFPN
    self,         \* the BiFPN instance built by the last construction
    fwd,          \* outcome of the last BiFPN.forward
    constructions \* number of BiFPN(...) calls made with the same arguments

vars == <<op, x_shape, size, resized, merge, merged, backbone, in_channels,
          cfg, self, fwd, constructions>>

(***************************************************************************)
(* Bounds of the model.                                                    *)
(***************************************************************************)
MaxDim == 16        \* largest height / width given to Resample._resize
MaxTarget == 8      \* largest target size given to Resample._resize
MaxSmallW == 2      \* raw weights range over -MaxSmallW..MaxSmallW (and more)
DeltaInv == 100     \* delta = 1 / DeltaInv
MaxIns == 4         \* most backbone levels
MaxOuts == 5        \* largest num_outs
MaxStart == 2       \* largest start_level
MaxStack == 2       \* largest stack
MaxChan == 2        \* backbone channel counts range over 1..MaxChan
MaxConstructions == 2

(***************************************************************************)
(* Python list helpers.                                                    *)
(***************************************************************************)
At(s, i) == s[i + 1]

Last(s) == s[Len(s)]

ReverseMut(s) == s

\* md_x[::-1]
Reverse(s) == [k \in 1..Len(s) |-> s[Len(s) + 1 - k]]

None == [status |-> "none"]

(***************************************************************************)
(* Resample                                                                *)
(***************************************************************************)
\* torch.Size is a tuple: == and < are Python's tuple comparisons, and < is
\* lexicographic.
SizeLessMut(a, b) == a[1] < b[1] /\ a[2] < b[2]

SizeLess(a, b) == a[1] < b[1] \/ (a[1] = b[1] /\ a[2] < b[2])

\* Output length of F.max_pool2d along one dimension (floor mode).
PoolOut(n, kernel, stride, padding) ==
    ((n + 2 * padding - kernel) \div stride) + 1

\* Resample._resize(x, size) on the shape of x.
Resize(shape, sz) ==
    IF shape = sz
    THEN [status |-> "ok", shape |-> shape, path |-> "same", kernel_size |-> 0]
    ELSE IF SizeLess(shape, sz)
    THEN [status |-> "ok", shape |-> sz, path |-> "interpolate",
          kernel_size |-> 0]
    ELSE IF ~(shape[1] % sz[1] = 0 /\ shape[2] % sz[2] = 0)
    THEN [status |-> "AssertionError", shape |-> shape, path |-> "max_pool2d",
          kernel_size |-> 0]
    ELSE LET kernel_size == shape[2] \div sz[2]
             oh == PoolOut(shape[1], kernel_size + 1, kernel_size, 1)
             ow == PoolOut(shape[2], kernel_size + 1, kernel_size, 1)
         IN  IF oh < 1 \/ ow < 1
             THEN [status |-> "RuntimeError", shape |-> shape,
                   path |-> "max_pool2d", kernel_size |-> kernel_size + 1]
             ELSE [status |-> "ok", shape |-> <<oh, ow>>,
                   path |-> "max_pool2d", kernel_size |-> kernel_size + 1]

\* Resample(in_channels, out_channels, target_size, ...)
ResampleInit(in_c, out_c, target_size) ==
    [in_channels |-> in_c, out_channels |-> out_c,
     target_size |-> <<target_size, target_size>>]

\* The map Resample.forward returns, given the outcome z of _resize.
Resampled(r, z) ==
    [status |-> z.status, c |-> r.out_channels,
     h |-> z.shape[1], w |-> z.shape[2]]

\* Resample.forward(inputs): the 1x1 convolution needs inputs of its own
\* in_channels and keeps the spatial shape; then _resize.
ResampleForward(r, x) ==
    IF x.c # r.in_channels
    THEN [status |-> "RuntimeError", c |-> x.c, h |-> x.h, w |-> x.w]
    ELSE Resampled(r, Resize(<<x.h, x.w>>, r.target_size))

(***************************************************************************)
(* WeightedMerge                                                           *)
(***************************************************************************)
eps == 1

InitWeight == 10000

relu_inplace_on == TRUE

\* self.relu = nn.ReLU(inplace=False)
relu_inplace == FALSE

ReluMut(v) == v

\* nn.ReLU on one component
Relu(v) == IF v > 0 THEN v ELSE 0

RECURSIVE Sum(_)
\* Tensor.sum() of a 1-d tensor
Sum(s) == IF s = <<>> THEN 0 ELSE s[1] + Sum(Tail(s))

\* w /= (w.sum() + self.eps), on the rectified vector r.  The result is the
\* vector num[i] / den.  `stored' is self.weight afterwards: w is a fresh
\* tensor unless the ReLU is in place, in which case w is self.weight itself
\* and the in-place division writes it (rounded to the weight unit).
Normalized(weight, r, d) ==
    [num |-> r, den |-> d,
     stored |-> IF relu_inplace
                THEN [i \in 1..Len(weight) |-> (r[i] * InitWeight) \div d]
                ELSE weight]

\* w = self.relu(self.weight)
Rectified(weight) == [i \in 1..Len(weight) |-> Relu(weight[i])]

\* w = self.relu(self.weight); w /= (w.sum() + self.eps)
NormalizedWeights(weight) ==
    Normalized(weight, Rectified(weight), Sum(Rectified(weight)) + eps)

\* WeightedMerge(in_channels, out_channels, target_size, ...)
WeightedMergeInit(in_chs, out_c, target_size) ==
    [num_ins |-> Len(in_chs),
     out_channels |-> out_c,
     target_size |-> target_size,
     weight |-> [i \in 1..Len(in_chs) |-> InitWeight],
     resample_ops |-> [i \in 1..Len(in_chs) |->
                          ResampleInit(in_chs[i], out_c, target_size)]]

\* x += t on tensors: t must broadcast to the shape of x.
BroadcastsTo(t, x) == (t.h = x.h \/ t.h = 1) /\ (t.w = x.w \/ t.w = 1)

RECURSIVE Accumulate(_, _, _, _)
RECURSIVE Accumulated(_, _, _, _, _)
\* for i in range(self.num_ins): x += w[i] * self.resample_ops[i](inputs[i])
\* x is None while it is still the integer 0.
Accumulate(m, inputs, i, x) ==
    IF i > m.num_ins THEN x
    ELSE Accumulated(m, inputs, i, x,
                     ResampleForward(m.resample_ops[i], inputs[i]))

\* One round of the loop, t being the resampled input i.
Accumulated(m, inputs, i, x, t) ==
    IF t.status # "ok" THEN t
    ELSE IF x.status = "none" THEN Accumulate(m, inputs, i + 1, t)
    ELSE IF ~BroadcastsTo(t, x)
    THEN [status |-> "RuntimeError", c |-> t.c, h |-> t.h, w |-> t.w]
    ELSE Accumulate(m, inputs, i + 1, x)

\* output = self.conv(self.swish(x)): keeps the shape of x (3x3 depthwise,
\* padding 1) and yields out_channels channels.
MergeOutput(m, nw, x) ==
    [status |-> x.status, c |-> m.out_channels, h |-> x.h, w |-> x.w,
     weights |-> [status |-> "ok", num |-> nw.num, den |-> nw.den],
     stored |-> nw.stored]

\* WeightedMerge.forward(inputs)
WeightedMergeForward(m, inputs) ==
    IF Len(inputs) # m.num_ins
    THEN [status |-> "AssertionError", c |-> 0, h |-> 0, w |-> 0,
          weights |-> None, stored |-> m.weight]
    ELSE MergeOutput(m, NormalizedWeights(m.weight),
                     Accumulate(m, inputs, 1, None))

(***************************************************************************)
(* bifpn_layer                                                             *)
(***************************************************************************)
\* assert num_outs >= 2
LayerNumOutsOK(n) == n >= 2

\* WeightedMerge(..., target_size_list[i-1], ...) of the top-down loop
TopDownTargetIndex(i) == i - 1

\* in_channels_list of the bottom-up loop
BottomUpInChannelsList(in_chs, out_c, n, i) ==
    IF i < n - 2 THEN <<out_c, At(in_chs, i + 1), out_c>>
    ELSE <<Last(in_chs), out_c>>

\* bifpn_layer(in_channels, out_channels, target_size_list, num_outs, ...)
\* The p-th module appended to top_down_merge is built for i = n - p, the
\* p-th appended to bottom_up_merge for i = p - 1.
BifpnLayerInit(in_chs, out_c, tsl, n) ==
    IF ~LayerNumOutsOK(n) THEN [status |-> "AssertionError"]
    ELSE IF Len(in_chs) < n \/ Len(tsl) < n THEN [status |-> "IndexError"]
    ELSE [status |-> "ok",
          num_outs |-> n,
          top_down_merge |-> [p \in 1..(n - 1) |->
              WeightedMergeInit(<<At(in_chs, n - p), At(in_chs, n - p - 1)>>,
                                out_c, At(tsl, TopDownTargetIndex(n - p)))],
          bottom_up_merge |-> [p \in 1..(n - 1) |->
              WeightedMergeInit(BottomUpInChannelsList(in_chs, out_c, n, p - 1),
                                out_c, At(tsl, p))]]

\* The feature map a module call returns, tagged with the call.
Map(r, kind, l, pos) ==
    [c |-> r.c, h |-> r.h, w |-> r.w,
     src |-> [kind |-> kind, layer |-> l, pos |-> pos]]

\* One entry of the log of WeightedMerge calls made by a forward pass: the
\* merge at position pos of its module list in layer l, called for level i.
Call(kind, l, pos, i, m, ins, r) ==
    [kind |-> kind, layer |-> l, pos |-> pos, level |-> i,
     in_channels |-> [b \in 1..m.num_ins |-> m.resample_ops[b].in_channels],
     target_size |-> m.target_size,
     inputs |-> ins, status |-> r.status, stored |-> r.stored]

\* A pass after a merge call that returned r: list.append(r)
Appended(st, kind, l, pos, i, m, ins, r) ==
    [status |-> r.status,
     list   |-> IF r.status = "ok" THEN Append(st.list, Map(r, kind, l, pos))
                ELSE st.list,
     calls  |-> Append(st.calls, Call(kind, l, pos, i, m, ins, r))]

\* A pass after a merge call that returned r: list[i] = r
Assigned(st, kind, l, pos, i, m, ins, r) ==
    [status |-> r.status,
     list   |-> IF r.status = "ok"
                THEN [st.list EXCEPT ![i + 1] = Map(r, kind, l, pos)]
                ELSE st.list,
     calls  |-> Append(st.calls, Call(kind, l, pos, i, m, ins, r))]

\* x = self.top_down_merge[self.num_outs-i-1]([inputs[i], inputs[i-1]])
\* md_x.append(x)
TopDownCall(l, pos, i, st, m, ins) ==
    Appended(st, "top_down", l, pos, i, m, ins, WeightedMergeForward(m, ins))

RECURSIVE TopDown(_, _, _, _, _)
\* for i in range(self.num_outs - 1, 0, -1): ...
TopDown(layer, l, inputs, i, st) ==
    IF i < 1 \/ st.status # "ok" THEN st
    ELSE TopDown(layer, l, inputs, i - 1,
             TopDownCall(l, layer.num_outs - i - 1, i, st,
                         At(layer.top_down_merge, layer.num_outs - i - 1),
                         <<At(inputs, i), At(inputs, i - 1)>>))

\* outputs[i] = self.bottom_up_merge[i-1]([md_x[i], inputs[i], outputs[i-1]])
BottomUpCall(l, pos, i, st, m, ins) ==
    Assigned(st, "bottom_up", l, pos, i, m, ins, WeightedMergeForward(m, ins))

RECURSIVE BottomUp(_, _, _, _, _, _)
\* for i in range(1, self.num_outs - 1): ...
BottomUp(layer, l, inputs, md_x, i, st) ==
    IF i > layer.num_outs - 2 \/ st.status # "ok" THEN st
    ELSE BottomUp(layer, l, inputs, md_x, i + 1,
             BottomUpCall(l, i - 1, i, st, At(layer.bottom_up_merge, i - 1),
                          <<At(md_x, i), At(inputs, i), At(st.list, i - 1)>>))

\* outputs = md_x[::-1], then the bottom-up loop; td is the top-down pass.
BottomUpPass(layer, l, inputs, td) ==
    BottomUp(layer, l, inputs, td.list, 1, [td EXCEPT !.list = Reverse(td.list)])

\* outputs.append(self.bottom_up_merge[-1]([inputs[-1], outputs[-1]]))
LastCall(l, pos, i, st, m, ins) ==
    Appended(st, "bottom_up", l, pos, i, m, ins, WeightedMergeForward(m, ins))

LastBottomUp(layer, l, inputs, st) ==
    IF st.status # "ok" THEN st
    ELSE LastCall(l, Len(layer.bottom_up_merge) - 1, layer.num_outs - 1, st,
                  Last(layer.bottom_up_merge), <<Last(inputs), Last(st.list)>>)

\* bifpn_layer.forward(inputs); l is the position of the layer in the stack.
BifpnLayerForward(layer, l, inputs) ==
    IF Len(inputs) # layer.num_outs
    THEN [status |-> "AssertionError", list |-> <<>>, calls |-> <<>>]
    ELSE LastBottomUp(layer, l, inputs,
             BottomUpPass(layer, l, inputs,
                 TopDown(layer, l, inputs, layer.num_outs - 1,
                         [status |-> "ok", list |-> <<>>, calls |-> <<>>])))

(***************************************************************************)
(* BiFPN                                                                   *)
(***************************************************************************)
MinLevelsOKMut(in_chs) == Len(in_chs) >= 2

\* assert len(in_channels) >= 3
MinLevelsOK(in_chs) == Len(in_chs) >= 3

\* assert num_outs >= self.num_ins - start_level
NumOutsCoversLevels(num_outs, num_ins, start_level) ==
    num_outs >= num_ins - start_level

\* assert end_level <= len(in_channels)
EndLevelOK(end_level, in_chs) == end_level <= Len(in_chs)

\* assert num_outs == end_level - start_level
NumOutsMatchesLevels(num_outs, start_level, end_level) ==
    num_outs = end_level - start_level

\* self.backbone_end_level
BackboneEndLevel(in_chs, c) ==
    IF c.end_level = -1 THEN Len(in_chs) ELSE c.end_level

RECURSIVE ExtraLoop(_, _, _, _)
\* for i in range(self.backbone_end_level, self.num_outs):
\*     in_c = in_channels[-1]
\*     self.extra_ops.append(Resample(in_c, out_channels, target_size_list[i], ...))
\*     in_channels.append(out_channels)
\* in_channels is the caller's list, appended to in place.
ExtraLoop(c, i, ops, in_chs) ==
    IF i >= c.num_outs
    THEN [status |-> "ok", extra_ops |-> ops, in_channels |-> in_chs]
    ELSE IF i >= Len(c.target_size_list)
    THEN [status |-> "IndexError", extra_ops |-> ops, in_channels |-> in_chs]
    ELSE ExtraLoop(c, i + 1,
             Append(ops, ResampleInit(Last(in_chs), c.out_channels,
                                      At(c.target_size_list, i))),
             Append(in_chs, c.out_channels))

RECURSIVE StackLoop(_, _, _, _)
RECURSIVE StackAppend(_, _, _, _)
\* for _ in range(stack):
\*     self.stack_bifpns.append(bifpn_layer(in_channels, out_channels, ...))
\*     in_channels = [out_channels] * self.num_outs
\* The last line rebinds the local name; it does not write the caller's list.
StackLoop(c, k, layers, in_chs) ==
    IF k > c.stack THEN [status |-> "ok", stack_bifpns |-> layers]
    ELSE StackAppend(c, k, layers,
                     BifpnLayerInit(in_chs, c.out_channels,
                                    c.target_size_list, c.num_outs))

\* One round of the loop, layer being the bifpn_layer just constructed.
StackAppend(c, k, layers, layer) ==
    IF layer.status # "ok"
    THEN [status |-> layer.status, stack_bifpns |-> layers]
    ELSE StackLoop(c, k + 1, Append(layers, layer),
                   [j \in 1..c.num_outs |-> c.out_channels])

\* The outcome of a construction whose assertions passed: ex is the outcome
\* of the extra-level loop, sk of the stack loop.
Built(in_chs, c, ex, sk) ==
    IF ex.status # "ok"
    THEN [status |-> ex.status, in_channels |-> ex.in_channels,
          self |-> [status |-> ex.status]]
    ELSE IF sk.status # "ok"
    THEN [status |-> sk.status, in_channels |-> ex.in_channels,
          self |-> [status |-> sk.status]]
    ELSE [status |-> "ok", in_channels |-> ex.in_channels,
          self |-> [status |-> "ok",
                    out_channels |-> c.out_channels,
                    num_ins |-> Len(in_chs),
                    stack |-> c.stack,
                    num_outs |-> c.num_outs,
                    backbone_end_level |-> BackboneEndLevel(in_chs, c),
                    start_level |-> c.start_level,
                    end_level |-> c.end_level,
                    extra_ops |-> ex.extra_ops,
                    stack_bifpns |-> sk.stack_bifpns]]

\* The extra-level loop and, on the list it leaves, the stack loop.
BuiltAfterExtras(in_chs, c, ex) ==
    Built(in_chs, c, ex, StackLoop(c, 1, <<>>, ex.in_channels))

\* BiFPN(in_channels, out_channels, target_size_list, num_outs, start_level,
\*       end_level, stack, ...): the instance (or the exception raised) and the
\* caller's in_channels list as the call leaves it.
BiFPNInit(in_chs, c) ==
    IF \/ ~MinLevelsOK(in_chs)
       \/ /\ c.end_level = -1
          /\ ~NumOutsCoversLevels(c.num_outs, Len(in_chs), c.start_level)
       \/ /\ c.end_level # -1
          /\ ~(EndLevelOK(c.end_level, in_chs)
               /\ NumOutsMatchesLevels(c.num_outs, c.start_level, c.end_level))
    THEN [status |-> "AssertionError", in_channels |-> in_chs,
          self |-> [status |-> "AssertionError"]]
    ELSE BuiltAfterExtras(in_chs, c,
             ExtraLoop(c, BackboneEndLevel(in_chs, c), <<>>, in_chs))

\* outs.append(extra_op(outs[-1])), r being what extra_op returned
AfterExtra(st, k, r) ==
    [st EXCEPT !.status = r.status,
               !.list = IF r.status = "ok"
                        THEN Append(st.list, Map(r, "extra", 0, k - 1))
                        ELSE st.list]

RECURSIVE Extras(_, _, _)
\* for _, extra_op in enumerate(self.extra_ops):
\*     outs.append(extra_op(outs[-1]))
Extras(ops, k, st) ==
    IF k > Len(ops) \/ st.status # "ok" THEN st
    ELSE IF st.list = <<>> THEN [st EXCEPT !.status = "IndexError"]
    ELSE Extras(ops, k + 1,
                AfterExtra(st, k, ResampleForward(ops[k], Last(st.list))))

\* outs = stack_bifpn(outs), r being what stack_bifpn returned
AfterLayer(st, r) ==
    [status |-> r.status,
     list   |-> IF r.status = "ok" THEN r.list ELSE st.list,
     calls  |-> st.calls \o r.calls]

RECURSIVE Stacked(_, _, _)
\* for _, stack_bifpn in enumerate(self.stack_bifpns):
\*     outs = stack_bifpn(outs)
Stacked(layers, l, st) ==
    IF l > Len(layers) \/ st.status # "ok" THEN st
    ELSE Stacked(layers, l + 1,
                 AfterLayer(st, BifpnLayerForward(layers[l], l - 1, st.list)))

\* outs[:self.num_outs]
Truncate(outs, n) == SubSeq(outs, 1, IF n < Len(outs) THEN n ELSE Len(outs))

\* return tuple(outs[:self.num_outs])
Returned(s, st) ==
    [status |-> st.status,
     outs   |-> IF st.status = "ok" THEN Truncate(st.list, s.num_outs)
                ELSE <<>>,
     calls  |-> st.calls]

\* BiFPN.forward(inputs)
BiFPNForward(s, inputs) ==
    Returned(s, Stacked(s.stack_bifpns, 1,
                    Extras(s.extra_ops, 1,
                           [status |-> "ok", list |-> inputs,
                            calls |-> <<>>])))

\* self.weight of the merge at (kind, l, pos) once the logged calls have run
StoredAfter(calls, kind, l, pos, old) ==
    IF \E k \in 1..Len(calls) :
           calls[k].kind = kind /\ calls[k].layer = l /\ calls[k].pos = pos
    THEN calls[CHOOSE k \in 1..Len(calls) :
                   calls[k].kind = kind /\ calls[k].layer = l
                       /\ calls[k].pos = pos].stored
    ELSE old

\* The instance after a forward pass: every called merge holds the weight its
\* forward left in self.weight.
AfterCalls(s, calls) ==
    [s EXCEPT !.stack_bifpns =
        [l \in 1..Len(s.stack_bifpns) |->
            [s.stack_bifpns[l] EXCEPT
                !.top_down_merge =
                    [p \in 1..Len(s.stack_bifpns[l].top_down_merge) |->
                        [s.stack_bifpns[l].top_down_merge[p] EXCEPT
                            !.weight = StoredAfter(calls, "top_down", l - 1,
                                                   p - 1, @)]],
                !.bottom_up_merge =
                    [p \in 1..Len(s.stack_bifpns[l].bottom_up_merge) |->
                        [s.stack_bifpns[l].bottom_up_merge[p] EXCEPT
                            !.weight = StoredAfter(calls, "bottom_up", l - 1,
                                                   p - 1, @)]]]]]

(***************************************************************************)
(* Specification of Resample._resize: a call on any shape and any square   *)
(* target within the bounds.                                               *)
(***************************************************************************)
NoResample == /\ x_shape = <<1, 1>> /\ size = <<1, 1>> /\ resized = None

NoMerge == /\ merge = None /\ merged = None

NoBiFPN ==
    /\ backbone = <<>> /\ in_channels = <<>> /\ cfg = None
    /\ self = None /\ fwd = None /\ constructions = 0

InitResample ==
    /\ op = "init"
    /\ \E h \in 1..MaxDim, w \in 1..MaxDim : x_shape = <<h, w>>
    /\ \E t \in 1..MaxTarget : size = <<t, t>>
    /\ resized = None
    /\ NoMerge /\ NoBiFPN

\* self._resize(feat, self.target_size), once on the chosen argument
ResampleResize ==
    /\ op = "init"
    /\ op' = "Resample._resize"
    /\ resized' = Resize(x_shape, size)
    /\ UNCHANGED <<x_shape, size, merge, merged, backbone, in_channels, cfg,
                   self, fwd, constructions>>

NextResample == ResampleResize

SpecResample == InitResample /\ [][NextResample]_vars

(***************************************************************************)
(* Specification of one WeightedMerge: constructed with two or three       *)
(* branches, its weight written by the optimizer between forward passes.   *)
(***************************************************************************)
\* Raw weight values the optimizer may leave: around zero, around
\* (DeltaInv - 1) * eps, and plus or minus the initial weight.
WeightVals ==
    (-MaxSmallW..MaxSmallW)
        \cup {(DeltaInv - 1) * eps, (DeltaInv - 1) * eps + 1}
        \cup {-InitWeight, InitWeight}

\* Sizes of the square maps given to the merge: smaller than, equal to, a
\* multiple of, and no multiple of its target size.
MergeInputSizes ==
    {MaxTarget \div 2, MaxTarget, 2 * MaxTarget, 2 * MaxTarget + 1}

InitMerge ==
    /\ op = "init"
    /\ \E n \in 2..3 :
           merge = WeightedMergeInit([i \in 1..n |-> MaxChan], MaxChan,
                                     MaxTarget)
    /\ merged = None
    /\ NoResample /\ NoBiFPN

\* The external optimizer writes one component of self.weight.
OptimizerStep(i, v) ==
    /\ op' = "optimizer.step"
    /\ merge' = [merge EXCEPT !.weight[i] = v]
    /\ merged' = None
    /\ UNCHANGED <<x_shape, size, resized, backbone, in_channels, cfg, self,
                   fwd, constructions>>

\* The state after self.forward(inputs) returned (or raised) r.
MergeForwarded(r) ==
    /\ merged' = [status |-> r.status, raw |-> merge.weight,
                  weights |-> r.weights, h |-> r.h, w |-> r.w]
    /\ merge' = [merge EXCEPT !.weight = r.stored]

\* self.forward(inputs) on maps of the constructed channel counts
MergeForward(sz) ==
    /\ op' = "WeightedMerge.forward"
    /\ MergeForwarded(WeightedMergeForward(merge,
           [i \in 1..merge.num_ins |->
               [c |-> merge.resample_ops[i].in_channels, h |-> sz, w |-> sz]]))
    /\ UNCHANGED <<x_shape, size, resized, backbone, in_channels, cfg,
                   self, fwd, constructions>>

NextMerge ==
    \/ \E i \in 1..merge.num_ins, v \in WeightVals : OptimizerStep(i, v)
    \/ \E sz \in MergeInputSizes : MergeForward(sz)

SpecMerge == InitMerge /\ [][NextMerge]_vars

(***************************************************************************)
(* Specification of BiFPN: a configuration, constructions from it (all     *)
(* with the same in_channels list object), and a forward pass of each      *)
(* instance on the maps of a run of backbone levels.                       *)
(***************************************************************************)
\* Spatial size of pyramid level i (0-based): halves from level to level.
PyramidSize(i) == 2 ^ (MaxOuts - i)

Init ==
    /\ op = "init"
    /\ \E n \in 2..MaxIns, base \in 1..MaxChan :
           backbone = [k \in 1..n |-> base + k - 1]
    /\ in_channels = backbone
    /\ \E oc \in {MaxChan, MaxChan + MaxIns}, no \in 0..MaxOuts,
          sl \in 0..MaxStart, el \in -1..(MaxIns + 1), sk \in 1..MaxStack :
           cfg = [out_channels |-> oc,
                  target_size_list |-> [i \in 1..MaxOuts |-> PyramidSize(i - 1)],
                  num_outs |-> no, start_level |-> sl, end_level |-> el,
                  stack |-> sk]
    /\ self = None
    /\ fwd = None
    /\ constructions = 0
    /\ NoResample /\ NoMerge

\* The state after BiFPN(...) returned (or raised) r.
Constructed(r) ==
    /\ self' = r.self
    /\ in_channels' = r.in_channels

\* BiFPN(in_channels, **cfg)
Construct ==
    /\ constructions < MaxConstructions
    /\ Constructed(BiFPNInit(in_channels, cfg))
    /\ op' = "BiFPN.__init__"
    /\ fwd' = None
    /\ constructions' = constructions + 1
    /\ UNCHANGED <<x_shape, size, resized, merge, merged, backbone, cfg>>

\* The maps of backbone levels lo .. hi-1 for an image whose level-i map is
\* PyramidSize(i) + img pixels square.
BackboneMaps(lo, hi, img) ==
    [k \in 1..(hi - lo) |->
        [c |-> backbone[lo + k], h |-> PyramidSize(lo + k - 1) + img,
         w |-> PyramidSize(lo + k - 1) + img,
         src |-> [kind |-> "backbone", layer |-> 0, pos |-> lo + k - 1]]]

\* The state after self.forward(inputs) returned (or raised) r.
Forwarded(r, lo, hi, img) ==
    /\ fwd' = [status |-> r.status, outs |-> r.outs, calls |-> r.calls,
               lo |-> lo, hi |-> hi, img |-> img]
    /\ self' = AfterCalls(self, r.calls)

\* self.forward(inputs), once per instance
Forward(lo, hi, img) ==
    /\ self.status = "ok"
    /\ fwd = None
    /\ Forwarded(BiFPNForward(self, BackboneMaps(lo, hi, img)), lo, hi, img)
    /\ op' = "BiFPN.forward"
    /\ UNCHANGED <<x_shape, size, resized, merge, merged, backbone,
                   in_channels, cfg, constructions>>

Next ==
    \/ Construct
    \/ \E lo \in 0..Len(backbone), img \in 0..1 :
           \E hi \in lo..Len(backbone) : Forward(lo, hi, img)

Spec == Init /\ [][Next]_vars

(***************************************************************************)
(* Resample._resize (SpecResample)                                         *)
(***************************************************************************)
\* C3, as claimed: whenever the resize does not fail, the output shape is
\* exactly (T, T), for square and non-square inputs alike; 16x16 to target 8
\* pools with kernel 3 and gives 8x8; 15x15 to target 8 fails.
C3_ExactTargetSize ==
    op = "Resample._resize" =>
        /\ resized.status = "ok" => resized.shape = size
        /\ (x_shape = <<16, 16>> /\ size = <<8, 8>>) =>
               /\ resized.status = "ok"
               /\ resized.path = "max_pool2d"
               /\ resized.kernel_size = 3
               /\ resized.shape = <<8, 8>>
        /\ (x_shape = <<15, 15>> /\ size = <<8, 8>>) => resized.status # "ok"

\* One dimension smaller than the target and the other larger.
MixedShape ==
    \/ x_shape[1] < size[1] /\ x_shape[2] > size[2]
    \/ x_shape[1] > size[1] /\ x_shape[2] < size[2]

\* C7, as claimed: an equal shape passes through; the upsample path is taken
\* only when both height and width are smaller than the target; a larger
\* shape takes the max-pool path; a mixed shape is successfully resized by
\* neither path.
C7_BothSmallerUpsamples ==
    op = "Resample._resize" =>
        /\ x_shape = size =>
               resized.path = "same" /\ resized.shape = x_shape
        /\ resized.path = "interpolate" =>
               x_shape[1] < size[1] /\ x_shape[2] < size[2]
        /\ (x_shape[1] > size[1] /\ x_shape[2] > size[2]) =>
               resized.path = "max_pool2d"
        /\ MixedShape => ~(resized.status = "ok" /\ resized.shape = size)

\* C7, amended: an equal shape passes through unchanged; the upsample path is
\* taken exactly when (H, W) is lexicographically smaller than (T, T), and it
\* always yields (T, T); every other shape takes the max-pool path.  So a map
\* with H < T and W > T is upsampled to (T, T), and a map with H > T and W < T
\* enters the max-pool path and fails its divisibility assertion.
C7_LexicographicUpsamples ==
    op = "Resample._resize" =>
        /\ x_shape = size =>
               /\ resized.status = "ok"
               /\ resized.path = "same"
               /\ resized.shape = x_shape
        /\ resized.path = "interpolate" <=>
               \/ x_shape[1] < size[1]
               \/ x_shape[1] = size[1] /\ x_shape[2] < size[2]
        /\ resized.path = "interpolate" =>
               resized.status = "ok" /\ resized.shape = size
        /\ resized.path = "max_pool2d" <=>
               \/ x_shape[1] > size[1]
               \/ x_shape[1] = size[1] /\ x_shape[2] > size[2]
        /\ (x_shape[1] < size[1] /\ x_shape[2] > size[2]) =>
               /\ resized.path = "interpolate"
               /\ resized.status = "ok"
               /\ resized.shape = size
        /\ (x_shape[1] > size[1] /\ x_shape[2] < size[2]) =>
               /\ resized.path = "max_pool2d"
               /\ resized.status = "AssertionError"

\* A map lower but wider than the target has been upsampled.
C7_Witness ==
    /\ op = "Resample._resize"
    /\ x_shape[1] < size[1] /\ x_shape[2] > size[2]
    /\ resized.path = "interpolate"
    /\ resized.shape = size

(***************************************************************************)
(* WeightedMerge.forward (SpecMerge)                                       *)
(***************************************************************************)
\* num / den lies in (1 - delta, 1 + delta), delta = 1 / DeltaInv.
NearOne(num, den) ==
    /\ num * DeltaInv > den * (DeltaInv - 1)
    /\ num * DeltaInv < den * (DeltaInv + 1)

\* C4, as claimed: the normalised weights are non-negative and, whenever at
\* least one raw weight is non-zero, sum to a value in (1-delta, 1+delta).
C4_NonZeroSumsToOne ==
    (op = "WeightedMerge.forward" /\ merged.weights.status = "ok") =>
        /\ merged.weights.den > 0
        /\ \A i \in 1..Len(merged.raw) : merged.weights.num[i] >= 0
        /\ (\E i \in 1..Len(merged.raw) : merged.raw[i] # 0) =>
               NearOne(Sum(merged.weights.num), merged.weights.den)

\* C4, amended: the normalised weights are non-negative; they sum to a value
\* in (1-delta, 1+delta) whenever the rectified weights sum to more than
\* eps * (1-delta) / delta, and to 0 when no raw weight is positive.
C4_LargeSumsToOne ==
    (op = "WeightedMerge.forward" /\ merged.weights.status = "ok") =>
        /\ merged.weights.den > 0
        /\ \A i \in 1..Len(merged.raw) : merged.weights.num[i] >= 0
        /\ Sum(Rectified(merged.raw)) > (DeltaInv - 1) * eps =>
               NearOne(Sum(merged.weights.num), merged.weights.den)
        /\ (\A i \in 1..Len(merged.raw) : merged.raw[i] <= 0) =>
               Sum(merged.weights.num) = 0

\* A forward pass with a negative raw weight beside a large one.
C4_Witness ==
    /\ op = "WeightedMerge.forward"
    /\ merged.weights.status = "ok"
    /\ \E i \in 1..Len(merged.raw) : merged.raw[i] < 0
    /\ Sum(Rectified(merged.raw)) > (DeltaInv - 1) * eps
    /\ NearOne(Sum(merged.weights.num), merged.weights.den)

\* C8: a WeightedMerge.forward evaluation leaves the stored raw weight as it
\* was (so any sequence of evaluations does).
C8_ForwardKeepsWeight ==
    [][op' = "WeightedMerge.forward" => merge'.weight = merge.weight]_vars

\* A forward pass has completed on a weight the optimizer has moved away from
\* its initial value, some component of it negative.
C8_Witness ==
    /\ op = "WeightedMerge.forward"
    /\ merged.status = "ok"
    /\ \E i \in 1..merge.num_ins : merge.weight[i] < 0
    /\ \E i \in 1..merge.num_ins : merge.weight[i] \notin {0, InitWeight}

(***************************************************************************)
(* BiFPN and bifpn_layer (Spec)                                            *)
(***************************************************************************)
\* The forward pass was given the maps of the backbone levels from
\* start_level up to backbone_end_level, of the sizes in target_size_list,
\* by an instance built from a fresh configuration.
ContractInputs ==
    /\ op = "BiFPN.forward"
    /\ constructions = 1
    /\ fwd.lo = self.start_level
    /\ fwd.hi = self.backbone_end_level
    /\ fwd.img = 0

\* C1, as claimed: for every accepted configuration, forward on the backbone
\* levels between start_level and backbone_end_level completes and returns
\* exactly num_outs feature maps.
C1_ForwardReturnsNumOuts ==
    ContractInputs =>
        /\ fwd.status = "ok"
        /\ Len(fwd.outs) = self.num_outs

\* The four conditions under which construction is claimed to fail.
ClaimedFailure(in_chs, c) ==
    \/ Len(in_chs) < 3
    \/ c.end_level = -1 /\ c.num_outs < Len(in_chs) - c.start_level
    \/ c.end_level # -1 /\ c.end_level > Len(in_chs)
    \/ c.end_level # -1 /\ c.num_outs # c.end_level - c.start_level

\* C2, as claimed: construction fails exactly when fewer than 3 levels are
\* given, or end_level is -1 and num_outs < len(in_channels) - start_level, or
\* end_level is explicit and exceeds len(in_channels), or end_level is explicit
\* and num_outs # end_level - start_level.
C2_FailsExactlyWhenClaimed ==
    [][op' = "BiFPN.__init__" =>
          (self'.status # "ok" <=> ClaimedFailure(in_channels, cfg))]_vars

\* C2, amended: for start_level >= 0, end_level >= -1 and stack >= 1,
\* construction fails exactly when one of the four conditions holds or
\* num_outs < 2 (the assertion of bifpn_layer).
C2_FailsAlsoBelowTwoOuts ==
    [][op' = "BiFPN.__init__" =>
          (self'.status # "ok" <=>
               ClaimedFailure(in_channels, cfg) \/ cfg.num_outs < 2)]_vars

\* A construction that passed the assertions of BiFPN has failed in
\* bifpn_layer.
C2_Witness ==
    /\ op = "BiFPN.__init__"
    /\ self.status = "AssertionError"
    /\ ~ClaimedFailure(in_channels, cfg)
    /\ cfg.num_outs < 2

\* The WeightedMerge of instance s that returned the map tagged src.
Producer(s, src) ==
    IF src.kind = "top_down"
    THEN At(s.stack_bifpns[src.layer + 1].top_down_merge, src.pos)
    ELSE At(s.stack_bifpns[src.layer + 1].bottom_up_merge, src.pos)

\* C5: a completed forward pass returns num_outs maps, and the map at index i
\* is the output of a WeightedMerge of the last layer that was constructed
\* with target size target_size_list[i] (and has that size).
C5_OutputsKeepLevels ==
    (op = "BiFPN.forward" /\ fwd.status = "ok") =>
        /\ Len(fwd.outs) = self.num_outs
        /\ \A i \in 0..(self.num_outs - 1) :
               /\ At(fwd.outs, i).src.kind \in {"top_down", "bottom_up"}
               /\ At(fwd.outs, i).src.layer = self.stack - 1
               /\ Producer(self, At(fwd.outs, i).src).target_size
                      = At(cfg.target_size_list, i)
               /\ At(fwd.outs, i).h = At(cfg.target_size_list, i)
               /\ At(fwd.outs, i).w = At(cfg.target_size_list, i)

\* A forward pass through two layers of five levels, two of them extra, has
\* completed.
C5_Witness ==
    /\ op = "BiFPN.forward"
    /\ fwd.status = "ok"
    /\ self.num_outs = 5
    /\ self.stack = 2
    /\ Len(self.extra_ops) = 2
    /\ Len(fwd.outs) = 5

\* C6, as claimed: every branch of every merge called by forward was
\* constructed with the channel count of the map forward feeds it.
C6_BranchChannelsMatch ==
    ContractInputs =>
        \A k \in 1..Len(fwd.calls) :
            /\ Len(fwd.calls[k].in_channels) = Len(fwd.calls[k].inputs)
            /\ \A b \in 1..Len(fwd.calls[k].inputs) :
                   fwd.calls[k].in_channels[b] = fwd.calls[k].inputs[b].c

\* C9, as claimed: the first input of the bottom-up merge for a level i with
\* 1 <= i <= num_outs - 2 is the top-down result of the same layer whose
\* merge was constructed with target size target_size_list[i].
C9_BottomUpTakesOwnTopDown ==
    op = "BiFPN.forward" =>
        \A k \in 1..Len(fwd.calls) :
            (fwd.calls[k].kind = "bottom_up"
                 /\ fwd.calls[k].level <= self.num_outs - 2) =>
                /\ fwd.calls[k].inputs[1].src.kind = "top_down"
                /\ fwd.calls[k].inputs[1].src.layer = fwd.calls[k].layer
                /\ Producer(self, fwd.calls[k].inputs[1].src).target_size
                       = At(cfg.target_size_list, fwd.calls[k].level)

\* C10, as claimed: a construction leaves the caller's in_channels list as it
\* was, and every instance built with end_level = -1 has num_outs minus the
\* number of backbone levels extra Resample levels (none if that is negative).
C10_ConstructionKeepsInChannels ==
    op = "BiFPN.__init__" =>
        /\ in_channels = backbone
        /\ (self.status = "ok" /\ cfg.end_level = -1) =>
               Len(self.extra_ops) =
                   IF cfg.num_outs > Len(backbone)
                   THEN cfg.num_outs - Len(backbone) ELSE 0

====
